---------------------------- MODULE Spec2Model ----------------------------
(***************************************************************************)
(* Resources/EmbedStaticAssets.py: the build-time encoder that turns a     *)
(* directory tree into one C++ source file (one gzip-compressed string     *)
(* literal and one MD5 literal per file, plus the ReadStaticAsset          *)
(* dispatch routine), and the run-time behaviour of the C++ text it        *)
(* emits.                                                                  *)
(*                                                                         *)
(* Characters and bytes are numbers (character codes), texts and byte      *)
(* strings are sequences of them.                                          *)
(***************************************************************************)
EXTENDS Integers, Sequences, FiniteSets, TLC

(* ------------------------------ bounds --------------------------------- *)

\* Longest file content of the source tree.
MaxLen == 2

\* Most files in the source tree.
MaxFiles == 2

(* ------------------------- program constants --------------------------- *)

\* line 61: the column at which the literal is closed and reopened.
WrapWidth == 120

\* line 29: len(sys.argv) of a well-formed invocation.
ExpectedArgc == 3

\* hashlib.md5(...).hexdigest(): 32 hexadecimal characters.
DigestHexLen == 32

(* --------------------------- characters -------------------------------- *)

Quote == 34        \* "
Backslash == 92    \* \
Question == 63     \* ?
Slash == 47        \* /
Newline == 10
Space == 32
Zero == 48         \* 0

OctalDigits == 48..55

RECURSIVE ConcatRange(_, _, _)
\* ss[lo] \o ... \o ss[hi], halving the range.
ConcatRange(ss, lo, hi) ==
    IF lo > hi THEN <<>>
    ELSE IF lo = hi THEN ss[lo]
    ELSE LET mid == (lo + hi) \div 2
         IN  ConcatRange(ss, lo, mid) \o ConcatRange(ss, mid + 1, hi)

\* The concatenation of a sequence of sequences (successive f.write calls).
Concat(ss) == ConcatRange(ss, 1, Len(ss))

(* ---------------- EncodeFileAsCString (lines 39-65) -------------------- *)

\* '\\{0:o}'.format(i): the octal digits without the padding to three.
OctalEscapeUnpadded(i) ==
    <<Backslash>>
    \o (IF i >= 64 THEN <<Zero + (i \div 64)>> ELSE <<>>)
    \o (IF i >= 8 THEN <<Zero + ((i \div 8) % 8)>> ELSE <<>>)
    \o <<Zero + (i % 8)>>

\* '\\{0:03o}'.format(i): a backslash and exactly three octal digits.
OctalEscape(i) ==
    <<Backslash, Zero + (i \div 64), Zero + ((i \div 8) % 8), Zero + (i % 8)>>

\* lines 53-58: what is written for one byte.
EncodeByte(i) ==
    IF i < 32 \/ i >= 127 \/ i = Question
    THEN OctalEscape(i)
    ELSE IF i \in {Quote, Backslash}
         THEN <<Backslash, i>>
         ELSE <<i>>

\* lines 60-63: after the byte at (1-based) position k the column is k modulo
\* the wrap width; when it reaches it the literal is closed and reopened.
WrapAfter(k) ==
    IF k % WrapWidth = 0 THEN <<Quote, Newline, Space, Space, Quote>> ELSE <<>>

\* The text between '= \n  ' and ';\n\n': the opening quote of line 40, the
\* loop of lines 44-63, the closing quote of line 65.
LiteralText(content) ==
    <<Quote>>
    \o Concat([k \in 1..Len(content) |-> EncodeByte(content[k]) \o WrapAfter(k)])
    \o <<Quote>>

\* The declared size without the terminator: len(content).
LiteralSizeWithoutTerminator(content) == Len(content)

\* line 40: the declared size of the array, len(content) + 1.
LiteralSize(content) == Len(content) + 1

\* One emitted 'static const uint8_t <variable>[<size>] = "<text>";'.
EncodeFileAsCString(variable, content) ==
    [variable |-> variable, size |-> LiteralSize(content), text |-> LiteralText(content)]

(* ------------- the C++ compiler's reading of a string literal ---------- *)

\* Translation phase 1: the third character of a trigraph ??x and what the
\* trigraph stands for.
TrigraphOf(c) ==
    CASE c = 61 -> 35  [] c = 47 -> 92  [] c = 39 -> 94
      [] c = 40 -> 91  [] c = 41 -> 93  [] c = 33 -> 124
      [] c = 60 -> 123 [] c = 62 -> 125 [] c = 45 -> 126
      [] OTHER -> 0

\* A trigraph starts at position i. Two trigraphs never overlap: the third
\* character of one is no question mark.
IsTrigraph(text, i) ==
    /\ i >= 1
    /\ i + 2 <= Len(text)
    /\ text[i] = Question
    /\ text[i + 1] = Question
    /\ TrigraphOf(text[i + 2]) # 0

\* The text with every trigraph replaced.
ReplaceTrigraphs(text) ==
    Concat([i \in 1..Len(text) |->
              IF IsTrigraph(text, i) THEN <<TrigraphOf(text[i + 2])>>
              ELSE IF IsTrigraph(text, i - 1) \/ IsTrigraph(text, i - 2) THEN <<>>
              ELSE <<text[i]>>])

\* The simple escape sequences: the character after the backslash and the
\* character the escape denotes (0: not a simple escape).
SimpleEscape(c) ==
    CASE c = 34 -> 34   [] c = 39 -> 39   [] c = 63 -> 63   [] c = 92 -> 92
      [] c = 97 -> 7    [] c = 98 -> 8    [] c = 102 -> 12  [] c = 110 -> 10
      [] c = 114 -> 13  [] c = 116 -> 9   [] c = 118 -> 11
      [] OTHER -> 0

\* The number of octal digits of the escape that starts after the backslash
\* at position i: as many as follow, at most three.
OctalRun(text, i) ==
    IF i + 1 > Len(text) \/ text[i + 1] \notin OctalDigits THEN 0
    ELSE IF i + 2 > Len(text) \/ text[i + 2] \notin OctalDigits THEN 1
    ELSE IF i + 3 > Len(text) \/ text[i + 3] \notin OctalDigits THEN 2
    ELSE 3

\* The value of the n octal digits after the backslash at position i.
OctalValue(text, i, n) ==
    CASE n = 1 -> text[i + 1] - Zero
      [] n = 2 -> (text[i + 1] - Zero) * 8 + (text[i + 2] - Zero)
      [] OTHER -> (text[i + 1] - Zero) * 64 + (text[i + 2] - Zero) * 8
                  + (text[i + 3] - Zero)

\* A scanner state: the next position, whether it lies within a literal,
\* whether the text is well-formed so far, the characters decoded so far.
LexStart == [i |-> 1, inside |-> FALSE, ok |-> TRUE, bytes |-> <<>>]

LexFail(st) == [st EXCEPT !.ok = FALSE]

LexTo(st, i, inside) == [st EXCEPT !.i = i, !.inside = inside]

LexEmit(st, i, c) == [st EXCEPT !.i = i, !.bytes = Append(@, c)]

\* Translation phases 5 and 6, one token: outside a literal white space is
\* skipped and a quote opens the next literal (adjacent literals are
\* concatenated); inside, a quote closes it, a backslash starts an octal
\* escape of one to three digits or a simple escape, any other character
\* stands for itself.
LexStep(text, st) ==
    LET i == st.i
    IN  IF ~st.ok \/ i > Len(text) THEN st
        ELSE IF ~st.inside
        THEN IF text[i] = Quote THEN LexTo(st, i + 1, TRUE)
             ELSE IF text[i] \in {Space, Newline} THEN LexTo(st, i + 1, FALSE)
             ELSE LexFail(st)
        ELSE IF text[i] = Quote THEN LexTo(st, i + 1, FALSE)
        ELSE IF text[i] = Newline THEN LexFail(st)
        ELSE IF text[i] # Backslash THEN LexEmit(st, i + 1, text[i])
        ELSE IF i = Len(text) THEN LexFail(st)
        ELSE IF OctalRun(text, i) > 0
        THEN LET n == OctalRun(text, i)
                 v == OctalValue(text, i, n)
             IN  IF v > 255 THEN LexFail(st) ELSE LexEmit(st, i + 1 + n, v)
        ELSE IF SimpleEscape(text[i + 1]) # 0
        THEN LexEmit(st, i + 2, SimpleEscape(text[i + 1]))
        ELSE LexFail(st)

RECURSIVE LexSteps(_, _, _)
\* k steps of the scanner from st (halving k).
LexSteps(text, st, k) ==
    IF k = 0 THEN st
    ELSE IF k = 1 THEN LexStep(text, st)
    ELSE LET half == LexSteps(text, st, k \div 2)
         IN  IF half.i > Len(text) \/ ~half.ok THEN half
             ELSE LexSteps(text, half, k - (k \div 2))

\* The characters a sequence of adjacent string literals denotes (without
\* the terminating NUL), or ill-formed. A text of n characters is scanned in
\* at most n steps.
CStringValue(text) ==
    LET t  == ReplaceTrigraphs(text)
        st == LexSteps(t, LexStart, Len(t))
    IN  [ok |-> st.ok /\ ~st.inside, bytes |-> IF st.ok /\ ~st.inside THEN st.bytes ELSE <<>>]

(* ------------------- gzip (lines 113 and 83) --------------------------- *)

\* The check value of the gzip trailer. It is far shorter than the data it
\* guards, so different data may share it: here the byte sum modulo 16.
RECURSIVE ByteSum(_, _)
ByteSum(bytes, i) == IF i > Len(bytes) THEN 0 ELSE bytes[i] + ByteSum(bytes, i + 1)

Crc(bytes) == ByteSum(bytes, 1) % 16

\* The gzip member header: the magic 1f 8b, the method (8, deflate), no
\* flags, the modification time (four bytes in the format, one here), XFL
\* and OS.
GzipHeader(mtime) == <<31, 139, 8, 0, mtime, 2, 255>>

\* The deflate stream, in its simplest form: one final stored block (its
\* marker, LEN and the complement of LEN, the bytes).
Deflate(content) == <<1, Len(content), 255 - Len(content)>> \o content

\* gzip.compress(content) at time mtime: header, deflate stream, trailer
\* (check value and length of the uncompressed data).
GzipCompress(content, mtime) ==
    GzipHeader(mtime) \o Deflate(content) \o <<Crc(content), Len(content) % 256>>

GzipFailure == [ok |-> FALSE, out |-> <<>>]

\* Orthanc::GzipCompressor::Uncompress on size bytes: the inverse of
\* GzipCompress. The modification time, XFL and OS bytes are not looked at;
\* a wrong magic, method, flag, block header, check value or length fails.
GzipUncompress(data) ==
    LET n == Len(data)
    IN  IF n < 12 THEN GzipFailure
        ELSE IF <<data[1], data[2], data[3], data[4]>> # <<31, 139, 8, 0>> THEN GzipFailure
        ELSE IF data[8] # 1 \/ data[10] # 255 - data[9] \/ n # 12 + data[9] THEN GzipFailure
        ELSE LET out == SubSeq(data, 11, 10 + data[9])
             IN  IF data[n - 1] # Crc(out) \/ data[n] # Len(out) % 256 THEN GzipFailure
                 ELSE [ok |-> TRUE, out |-> out]

(* -------------------- MD5 (lines 69 and 85) ---------------------------- *)

RECURSIVE DigestNumber(_, _)
\* The digest as a number: collision-free on the contents of the model (the
\* content read as a numeral in base 257 with digits 1..256, from position i).
DigestNumber(content, i) ==
    IF i = 0 THEN 0 ELSE DigestNumber(content, i - 1) * 257 + content[i] + 1

\* One lowercase hexadecimal digit.
HexChar(d) == IF d < 10 THEN Zero + d ELSE 87 + d

\* hexdigest(): DigestHexLen lowercase hexadecimal characters, most
\* significant first (the model's digests stay below 16^7).
HexDigest(n) ==
    [k \in 1..DigestHexLen |->
        LET e == DigestHexLen - k
        IN  HexChar(IF e >= 7 THEN 0 ELSE (n \div (16 ^ e)) % 16)]

\* line 69: hashlib.md5(content).hexdigest().
Md5Hex(content) == HexDigest(DigestNumber(content, Len(content)))

\* line 85: Orthanc::Toolbox::ComputeMD5, the same digest in the same format.
ComputeMD5(content) == HexDigest(DigestNumber(content, Len(content)))

\* lines 68-70: 'static const char* <variable>_md5 = "<md5 of the content>";'
\* (line 116 passes the original content, not the compressed bytes).
WriteChecksum(variable, content) ==
    [variable |-> variable, text |-> <<Quote>> \o Md5Hex(content) \o <<Quote>>]

(* ----------------------- paths (lines 97-100) -------------------------- *)

\* line 100: os.path.relpath(os.path.join(root, f), SOURCE): the components
\* below SOURCE joined with the platform's separator os.sep.
RelPath(comps, sep) ==
    Concat([k \in 1..Len(comps) |-> IF k = 1 THEN comps[k] ELSE <<sep>> \o comps[k]])

\* line 118: index[relativePath] = variable on the insertion-ordered dict.
IndexSet(index, path, variable) ==
    IF \E k \in 1..Len(index) : index[k].path = path
    THEN [k \in 1..Len(index) |->
            IF index[k].path = path THEN [index[k] EXCEPT !.variable = variable]
            ELSE index[k]]
    ELSE Append(index, [path |-> path, variable |-> variable])

(* ------------------------------ inputs --------------------------------- *)

\* The separators os.sep of the platforms the script runs on.
Separators == {Slash, Backslash}

\* The bytes of the file contents: the question mark (the gzip header and
\* trailer add printable and non-printable bytes to what is embedded).
ContentBytes == {Question}

RECURSIVE SeqsUpTo(_, _)
\* The sequences over S of length at most n.
SeqsUpTo(S, n) ==
    IF n = 0 THEN {<<>>}
    ELSE LET shorter == SeqsUpTo(S, n - 1)
         IN  shorter \cup {Append(q, x) : q \in {r \in shorter : Len(r) = n - 1}, x \in S}

Contents == SeqsUpTo(ContentBytes, MaxLen)

\* The files a source tree is made of, each the components of its path
\* below SOURCE: a, s/b and s/s.
FilePool == {<<<<97>>>>, <<<<115>>, <<98>>>>, <<<<115>>, <<115>>>>}

\* os.walk is top-down: the files of SOURCE itself come before those of its
\* subdirectories; the order within a directory is the file system's.
WalkOrdered(paths) ==
    \A i, j \in 1..Len(paths) :
        i < j => /\ paths[i] # paths[j]
                 /\ Len(paths[i]) <= Len(paths[j])

\* The source trees: the files in the order os.walk yields them, each with
\* its content and whether open(fullPath, 'rb') succeeds; at most one fails.
Trees ==
    {t \in UNION {[1..n -> [path : FilePool, content : Contents, readable : BOOLEAN]]
                    : n \in 0..MaxFiles} :
        /\ WalkOrdered([k \in 1..Len(t) |-> t[k].path])
        /\ Cardinality({k \in 1..Len(t) : ~t[k].readable}) <= 1}

\* The times gzip.compress may stamp into the header (one byte here).
Times == {0, 77}

\* What the destination path holds before the run.
Absent == [exists |-> FALSE, old |-> FALSE, preamble |-> FALSE, data |-> <<>>,
           md5 |-> <<>>, branches |-> <<>>, entry |-> FALSE]

OldFile == [Absent EXCEPT !.exists = TRUE, !.old = TRUE]

\* The paths ReadStaticAsset is called with: every file of the pool under
\* either separator, what the backslash keys denote as C++ literals, and two
\* paths of no file.
RequestPaths ==
    {RelPath(p, sep) : p \in FilePool, sep \in Separators}
    \cup {<<115, 8>>, <<109>>, <<>>}

\* The values a corrupted byte of the data takes.
CorruptBytes == {0, 127}

\* The values a corrupted character of a checksum takes.
CorruptChars == {70}

(* ------------------------------- state --------------------------------- *)

VARIABLES
    argc,        \* len(sys.argv)
    isdir,       \* os.path.isdir(SOURCE)
    sep,         \* os.sep
    mtime,       \* the time gzip.compress stamps
    tree,        \* the files below SOURCE in os.walk order
    pc,          \* where the script, then the host program, stands
    dest,        \* the file at TARGET
    index,       \* the dict index
    count,       \* the counter count
    image,       \* the constants compiled into the host program
    corrupted,   \* the constant of the image that was changed, if any
    call,        \* the last call of ReadStaticAsset and its outcome
    lit          \* EncodeFileAsCString alone: a byte string, its literal, its value

vars == <<argc, isdir, sep, mtime, tree, pc, dest, index, count,
          image, corrupted, call, lit>>

\* The variables of the encoder and of the host program.
programVars == <<argc, isdir, sep, mtime, tree, pc, dest, index, count,
                 image, corrupted, call>>

NoImage == [arrays |-> <<>>, md5s |-> <<>>, chain |-> <<>>]

NoCall == [path |-> <<>>, status |-> "none", written |-> FALSE, target |-> <<>>, branch |-> 0]

NoLit == [pc |-> "none", content |-> <<>>, text |-> <<>>, size |-> 0,
          value |-> [ok |-> FALSE, bytes |-> <<>>]]

NotCorrupted == [kind |-> "none", variable |-> 0, pos |-> 0]

Init ==
    /\ argc \in {2, 3, 4}
    /\ isdir \in BOOLEAN
    /\ sep \in Separators
    /\ mtime \in Times
    /\ tree \in Trees
    /\ pc = "start"
    /\ dest \in {Absent, OldFile}
    /\ index = <<>>
    /\ count = 0
    /\ image = NoImage
    /\ corrupted = NotCorrupted
    /\ call = NoCall
    /\ lit = NoLit

(* ---------------------- the encoder, step by step ---------------------- *)

\* open(TARGET, 'w') and the write of lines 74-92: the file is created or
\* truncated and holds the includes and the Uncompress function.
Truncated == [Absent EXCEPT !.exists = TRUE, !.preamble = TRUE]

\* The checks of lines 29-36 made inside the with statement: the target is
\* opened first.
CheckArgumentsAfterOpen ==
    /\ pc = "start"
    /\ dest' = Truncated
    /\ pc' = IF argc # ExpectedArgc THEN "UsageError"
             ELSE IF ~isdir THEN "NonexistentSource"
             ELSE "open"
    /\ UNCHANGED <<lit, argc, isdir, sep, mtime, tree, index, count,
                   image, corrupted, call>>

\* lines 29-36: the argument count, then the source folder; either raises
\* before anything else is done.
CheckArguments ==
    /\ pc = "start"
    /\ pc' = IF argc # ExpectedArgc THEN "UsageError"
             ELSE IF ~isdir THEN "NonexistentSource"
             ELSE "open"
    /\ UNCHANGED <<lit, argc, isdir, sep, mtime, tree, dest, index, count,
                   image, corrupted, call>>

\* lines 73-95: open the target, write the preamble, index = {}, count = 0.
OpenTarget ==
    /\ pc = "open"
    /\ dest' = Truncated
    /\ index' = <<>>
    /\ count' = 0
    /\ pc' = "walk"
    /\ UNCHANGED <<lit, argc, isdir, sep, mtime, tree, image, corrupted, call>>

\* lines 124-129: one branch per item of index, in the dict's order, naming
\* the variable three times (the data, sizeof, the checksum).
Branches(idx) ==
    [k \in 1..Len(idx) |->
        [key  |-> <<Quote>> \o idx[k].path \o <<Quote>>,
         data |-> idx[k].variable,
         size |-> idx[k].variable,
         md5  |-> idx[k].variable]]

\* One iteration whose read error is followed by the dispatch routine (as if
\* lines 122-132 stood in a finally clause).
EmbedFileThenDispatch ==
    /\ pc = "walk"
    /\ count < Len(tree)
    /\ LET f == tree[count + 1]
           variable == count
           compressed == GzipCompress(f.content, mtime)
       IN  IF ~f.readable
           THEN /\ pc' = "FileReadError"
                /\ dest' = [dest EXCEPT !.branches = Branches(index), !.entry = TRUE]
                /\ UNCHANGED <<index, count>>
           ELSE /\ dest' = [dest EXCEPT
                              !.data = Append(@, EncodeFileAsCString(variable, compressed)),
                              !.md5 = Append(@, WriteChecksum(variable, f.content))]
                /\ index' = IndexSet(index, RelPath(f.path, sep), variable)
                /\ count' = count + 1
                /\ pc' = pc
    /\ UNCHANGED <<lit, argc, isdir, sep, mtime, tree, image, corrupted, call>>

\* lines 98-120, one iteration: the next file of the walk is read (a failing
\* open raises: the with statement closes the target as written so far and
\* the script ends), compressed, written as a literal with its checksum, and
\* entered in index.
EmbedFile ==
    /\ pc = "walk"
    /\ count < Len(tree)
    /\ LET f == tree[count + 1]
           variable == count
           compressed == GzipCompress(f.content, mtime)
       IN  IF ~f.readable
           THEN /\ pc' = "FileReadError"
                /\ UNCHANGED <<dest, index, count>>
           ELSE /\ dest' = [dest EXCEPT
                              !.data = Append(@, EncodeFileAsCString(variable, compressed)),
                              !.md5 = Append(@, WriteChecksum(variable, f.content))]
                /\ index' = IndexSet(index, RelPath(f.path, sep), variable)
                /\ count' = count + 1
                /\ pc' = pc
    /\ UNCHANGED <<lit, argc, isdir, sep, mtime, tree, image, corrupted, call>>

\* lines 122-132: after the walk, the dispatch routine: its header, the
\* branches, the final throw of ErrorCode_InexistentItem.
EmitDispatch ==
    /\ pc = "walk"
    /\ count = Len(tree)
    /\ dest' = [dest EXCEPT !.branches = Branches(index), !.entry = TRUE]
    /\ pc' = "done"
    /\ UNCHANGED <<lit, argc, isdir, sep, mtime, tree, index, count,
                   image, corrupted, call>>

(* ------------------- the generated C++, compiled ----------------------- *)

\* The characters of a NUL-terminated array as a std::string: those before
\* the first NUL.
StdString(chars) ==
    IF \E k \in 1..Len(chars) : chars[k] = 0
    THEN SubSeq(chars, 1, (CHOOSE k \in 1..Len(chars) :
                              /\ chars[k] = 0
                              /\ \A j \in 1..(k - 1) : chars[j] # 0) - 1)
    ELSE chars

\* 'static const uint8_t v[size] = "...";' is well-formed when the literal
\* is and its characters and the terminating NUL fit the array.
DataWellFormed(d) ==
    /\ CStringValue(d.text).ok
    /\ Len(CStringValue(d.text).bytes) + 1 <= d.size

\* The array the definition initializes: the characters of the literal, then
\* zeros up to the declared size.
DataArray(d) ==
    LET bytes == CStringValue(d.text).bytes
    IN  bytes \o [k \in 1..(d.size - Len(bytes)) |-> 0]

\* The artifact compiles: every literal of it is well-formed.
WellFormed(artifact) ==
    /\ artifact.entry
    /\ \A k \in 1..Len(artifact.data) : DataWellFormed(artifact.data[k])
    /\ \A k \in 1..Len(artifact.md5) : CStringValue(artifact.md5[k].text).ok
    /\ \A k \in 1..Len(artifact.branches) : CStringValue(artifact.branches[k].key).ok

\* The constants of the compiled artifact: the arrays data_NNNNNN, the
\* NUL-terminated strings data_NNNNNN_md5 (both at position NNNNNN + 1) and
\* the chain of ReadStaticAsset with the string each condition compares with.
Compiled(artifact) ==
    [arrays |-> [k \in 1..Len(artifact.data) |-> DataArray(artifact.data[k])],
     md5s   |-> [k \in 1..Len(artifact.md5) |->
                    Append(CStringValue(artifact.md5[k].text).bytes, 0)],
     chain  |-> [k \in 1..Len(artifact.branches) |->
                    [key  |-> StdString(Append(CStringValue(artifact.branches[k].key).bytes, 0)),
                     data |-> artifact.branches[k].data,
                     size |-> artifact.branches[k].size,
                     md5  |-> artifact.branches[k].md5]]]

\* The generated file is compiled into the host program, or rejected by the
\* compiler.
Build ==
    /\ pc = "done"
    /\ IF WellFormed(dest)
       THEN /\ image' = Compiled(dest)
            /\ pc' = "built"
       ELSE /\ image' = image
            /\ pc' = "CompileError"
    /\ UNCHANGED <<lit, argc, isdir, sep, mtime, tree, dest, index, count,
                   corrupted, call>>

\* Uncompress without the comparison of lines 84-89.
UncompressUnchecked(data, md5Expected) ==
    LET r == GzipUncompress(data)
    IN  IF ~r.ok
        THEN {[status |-> "GzipError", written |-> w, target |-> <<>>] : w \in BOOLEAN}
        ELSE {[status |-> "ok", written |-> TRUE, target |-> r.out]}

\* lines 80-90, Uncompress(target, data, size, md5Expected) on the size bytes
\* data: the outcomes. The decompressor writes target and may throw its own
\* error (having written target or not); then the MD5 of target is compared
\* with md5Expected and ErrorCode_CorruptedFile thrown when they differ.
Uncompress(data, md5Expected) ==
    LET r == GzipUncompress(data)
    IN  IF ~r.ok
        THEN {[status |-> "GzipError", written |-> w, target |-> <<>>] : w \in BOOLEAN}
        ELSE IF ComputeMD5(r.out) # md5Expected
        THEN {[status |-> "CorruptedFile", written |-> TRUE, target |-> r.out]}
        ELSE {[status |-> "ok", written |-> TRUE, target |-> r.out]}

\* The first branch of the chain whose condition path == "..." holds, 0 when
\* none does.
FirstMatch(chain, path) ==
    IF \E k \in 1..Len(chain) : chain[k].key = path
    THEN CHOOSE k \in 1..Len(chain) :
            /\ chain[k].key = path
            /\ \A j \in 1..(k - 1) : chain[j].key # path
    ELSE 0

\* lines 122-132, ReadStaticAsset(target, path) as generated: the outcomes.
\* The matching branch calls Uncompress(target, v, sizeof(v) - 1, v_md5) and
\* returns; with no match ErrorCode_InexistentItem is thrown and target is
\* not touched.
ReadOutcomes(img, path) ==
    LET k == FirstMatch(img.chain, path)
    IN  IF k = 0
        THEN {[status |-> "InexistentItem", written |-> FALSE, target |-> <<>>]}
        ELSE LET b == img.chain[k]
                 size == Len(img.arrays[b.size + 1]) - 1
             IN  Uncompress(SubSeq(img.arrays[b.data + 1], 1, size),
                            StdString(img.md5s[b.md5 + 1]))

\* One call of ReadStaticAsset by the host program.
ReadStaticAsset ==
    /\ pc = "built"
    /\ \E path \in RequestPaths :
         \E o \in ReadOutcomes(image, path) :
            call' = [path |-> path, status |-> o.status, written |-> o.written,
                     target |-> o.target, branch |-> FirstMatch(image.chain, path)]
    /\ UNCHANGED <<lit, argc, isdir, sep, mtime, tree, pc, dest, index, count,
                   image, corrupted>>

\* One byte of the compressed data of one asset changes (not the terminator);
\* the calls that follow see the changed image.
CorruptData ==
    /\ pc = "built"
    /\ corrupted.kind = "none"
    /\ \E v \in 1..Len(image.arrays) :
         \E pos \in 1..(Len(image.arrays[v]) - 1) :
            \E b \in CorruptBytes \ {image.arrays[v][pos]} :
               /\ image' = [image EXCEPT !.arrays[v][pos] = b]
               /\ corrupted' = [kind |-> "data", variable |-> v - 1, pos |-> pos]
    /\ call' = NoCall
    /\ UNCHANGED <<lit, argc, isdir, sep, mtime, tree, pc, dest, index, count>>

\* One character of the checksum string of one asset changes.
CorruptChecksum ==
    /\ pc = "built"
    /\ corrupted.kind = "none"
    /\ \E v \in 1..Len(image.md5s) :
         \E pos \in 1..DigestHexLen :
            \E c \in CorruptChars \ {image.md5s[v][pos]} :
               /\ image' = [image EXCEPT !.md5s[v][pos] = c]
               /\ corrupted' = [kind |-> "md5", variable |-> v - 1, pos |-> pos]
    /\ call' = NoCall
    /\ UNCHANGED <<lit, argc, isdir, sep, mtime, tree, pc, dest, index, count>>

Next ==
    \/ CheckArguments
    \/ OpenTarget
    \/ EmbedFile
    \/ EmitDispatch
    \/ Build
    \/ ReadStaticAsset
    \/ CorruptData
    \/ CorruptChecksum

Spec == Init /\ [][Next]_vars

\* The encoder and the compiler alone.
NextBuild ==
    \/ CheckArguments
    \/ OpenTarget
    \/ EmbedFile
    \/ EmitDispatch
    \/ Build

SpecBuild == Init /\ [][NextBuild]_vars

(* ------------- EncodeFileAsCString on its own inputs ------------------- *)

\* Longest of the byte strings enumerated in full.
MaxLitLen == 3

\* Longest seed of the long byte strings.
MaxSeedLen == 2

\* NUL, the quote, the slash, a digit, the question mark, the backslash and
\* a byte above 127.
LitBytes == {0, Quote, Slash, Zero, Question, Backslash, 200}

\* The seed repeated up to length n.
Repeated(seed, n) == [k \in 1..n |-> seed[((k - 1) % Len(seed)) + 1]]

\* The inputs: every single byte, every string over LitBytes up to MaxLitLen,
\* every byte value in one string, and strings of the lengths around one and
\* two wrap widths.
LitInputs ==
    {<<b>> : b \in 0..255}
    \cup SeqsUpTo(LitBytes, MaxLitLen)
    \cup {[k \in 1..256 |-> k - 1]}
    \cup {Repeated(seed, n) :
            seed \in SeqsUpTo(LitBytes, MaxSeedLen) \ {<<>>},
            n \in {WrapWidth - 1, WrapWidth, WrapWidth + 1,
                   2 * WrapWidth - 1, 2 * WrapWidth, 2 * WrapWidth + 1}}

LitInit ==
    /\ lit \in {[NoLit EXCEPT !.pc = "input", !.content = c] : c \in LitInputs}
    /\ argc = ExpectedArgc
    /\ isdir = TRUE
    /\ sep = Slash
    /\ mtime = 0
    /\ tree = <<>>
    /\ pc = "start"
    /\ dest = Absent
    /\ index = <<>>
    /\ count = 0
    /\ image = NoImage
    /\ corrupted = NotCorrupted
    /\ call = NoCall

\* EncodeFileAsCString(f, variable, content) writes the definition.
LitEncode ==
    /\ lit.pc = "input"
    /\ LET d == EncodeFileAsCString(0, lit.content)
       IN  lit' = [lit EXCEPT !.pc = "encoded", !.text = d.text, !.size = d.size]
    /\ UNCHANGED programVars

\* The compiler reads the definition.
LitCompile ==
    /\ lit.pc = "encoded"
    /\ lit' = [lit EXCEPT !.pc = "compiled", !.value = CStringValue(lit.text)]
    /\ UNCHANGED programVars

LitNext == LitEncode \/ LitCompile

SpecLit == LitInit /\ [][LitNext]_vars

(* ------------------------------ claims --------------------------------- *)

\* The relative path the encoder computed for the k-th file of the walk.
AssetPath(k) == RelPath(tree[k].path, sep)

\* The same path with forward slashes between its components.
ForwardSlashPath(k) == RelPath(tree[k].path, Slash)

\* The last call was routed by the dispatch chain to the asset data_v.
RoutedTo(v) ==
    /\ call.status # "none"
    /\ call.branch # 0
    /\ image.chain[call.branch].data = v

\* C1: after a complete run of the encoder, ReadStaticAsset called with the
\* relative path of any file of the tree returns exactly the bytes of that
\* file (its literal decoded, decompressed and verified against its checksum).
C1_RoundTrip ==
    (call.status # "none" /\ corrupted.kind = "none")
        => \A k \in 1..Len(tree) :
              call.path = AssetPath(k)
                  => call.status = "ok" /\ call.target = tree[k].content

\* C2: the text EncodeFileAsCString writes for a byte string, read as a
\* sequence of adjacent C string literals, denotes exactly that byte string,
\* whatever its bytes and whether or not it is wrapped.
C2_LiteralSafety ==
    lit.pc = "compiled" => lit.value.ok /\ lit.value.bytes = lit.content

\* C2, its case: a wrapped string with a question mark in it was encoded and
\* read back.
C2_Witness ==
    /\ lit.pc = "compiled"
    /\ Len(lit.content) > 2 * WrapWidth
    /\ \E k \in 1..Len(lit.content) : lit.content[k] = Question
    /\ lit.value.bytes = lit.content

\* C3: the condition of each asset's branch holds for a requested path if
\* and only if the path is that asset's relative path; no path satisfies two
\* conditions; each branch names its own asset's data and checksum.
C3_DispatchCorrectness ==
    pc = "built"
        => /\ \A k \in 1..Len(image.chain) :
                /\ \A p \in RequestPaths : (image.chain[k].key = p) <=> (p = AssetPath(k))
                /\ image.chain[k].data = k - 1
                /\ image.chain[k].size = k - 1
                /\ image.chain[k].md5 = k - 1
           /\ \A p \in RequestPaths :
                Cardinality({k \in 1..Len(image.chain) : image.chain[k].key = p}) <= 1

\* C4: a call with a path that is the relative path of no file of the tree
\* fails with ErrorCode_InexistentItem and does not write the target.
C4_UnknownPath ==
    (call.status # "none" /\ \A k \in 1..Len(tree) : call.path # AssetPath(k))
        => call.status = "InexistentItem" /\ ~call.written

\* C5 as stated: after any single byte of an asset's compressed data, or any
\* single character of its checksum, has changed, a call with that asset's
\* path fails with the corruption condition and never completes. Read in the
\* claim's favour: only calls the dispatch routes to that asset, and the
\* decompressor's own error counted as the corruption condition.
C5_ChecksumSensitivity ==
    (corrupted.kind # "none" /\ RoutedTo(corrupted.variable)
     /\ call.path = AssetPath(corrupted.variable + 1))
        => call.status \in {"CorruptedFile", "GzipError"}

\* C5 amended: after a single character of an asset's checksum has changed,
\* every call routed to that asset fails with ErrorCode_CorruptedFile; after
\* a single byte of its compressed data has changed, every call routed to it
\* fails (in the decompressor or with ErrorCode_CorruptedFile) or returns
\* exactly the original bytes: never other bytes.
C5_CorruptionNeverYieldsWrongBytes ==
    (corrupted.kind # "none" /\ RoutedTo(corrupted.variable))
        => /\ corrupted.kind = "md5" => call.status = "CorruptedFile"
           /\ corrupted.kind = "data"
                => \/ call.status \in {"GzipError", "CorruptedFile"}
                   \/ /\ call.status = "ok"
                      /\ call.target = tree[corrupted.variable + 1].content

\* C5, its case: a checksum character changed and the call for that asset
\* failed with ErrorCode_CorruptedFile after decompressing.
C5_Witness ==
    /\ corrupted.kind = "md5"
    /\ RoutedTo(corrupted.variable)
    /\ call.status = "CorruptedFile"
    /\ call.written

\* C6: with the checksum of one asset changed, every call with that asset's
\* path fails with ErrorCode_CorruptedFile, every call with another asset's
\* path returns that asset's bytes, every call with an unknown path fails
\* with ErrorCode_InexistentItem.
C6_Isolation ==
    (corrupted.kind = "md5" /\ call.status # "none")
        => LET a == corrupted.variable + 1
           IN  /\ call.path = AssetPath(a) => call.status = "CorruptedFile"
               /\ \A k \in 1..Len(tree) :
                     (k # a /\ call.path = AssetPath(k))
                         => call.status = "ok" /\ call.target = tree[k].content
               /\ (\A k \in 1..Len(tree) : call.path # AssetPath(k))
                     => call.status = "InexistentItem"

\* C7 as stated: after a read error the destination never holds constants
\* of some assets without those of all assets and the dispatch routine.
C7_NoPartialArtifact ==
    pc = "FileReadError"
        => \/ dest.data = <<>>
           \/ Len(dest.data) = Len(tree) /\ dest.entry

\* C7 amended: a read error ends the run for good, and the dispatch routine
\* is never written after it; the destination, truncated, is left with the
\* preamble and the constants of exactly the files read before the failing
\* one.
C7_AbortWithoutDispatch ==
    pc = "FileReadError"
        => /\ ~ENABLED Next
           /\ dest.exists /\ ~dest.old /\ dest.preamble
           /\ ~dest.entry /\ dest.branches = <<>>
           /\ image = NoImage
           /\ count < Len(tree) /\ ~tree[count + 1].readable
           /\ Len(dest.data) = count /\ Len(dest.md5) = count
           /\ \A k \in 1..count : tree[k].readable /\ dest.data[k].variable = k - 1

\* C7, its case: the run ended on a read error after a constant was written.
C7_Witness == pc = "FileReadError" /\ Len(dest.data) >= 1

\* C8: with a wrong argument count, or a source that is no directory, no
\* step of the run changes the destination: it is neither created nor
\* truncated nor written, and the run ends in the error before the open.
C8_PreOutputValidation ==
    [][(argc # ExpectedArgc \/ ~isdir)
          => /\ dest' = dest
             /\ pc' \in {"UsageError", "NonexistentSource"}]_vars

\* C8, its case: the source is no directory, the run ended, and the
\* destination still holds its previous content.
C8_Witness == pc = "NonexistentSource" /\ dest = OldFile

\* C9: every key of the dispatch routine is the file's path with forward
\* slashes between its components, and no two keys are equal.
C9_ForwardSlashKeys ==
    /\ \A k \in 1..Len(dest.branches) :
          dest.branches[k].key = <<Quote>> \o ForwardSlashPath(k) \o <<Quote>>
    /\ \A j, k \in 1..Len(dest.branches) :
          j # k => dest.branches[j].key # dest.branches[k].key

\* The compressed bytes of the file behind data_v.
CompressedOf(v) == GzipCompress(tree[v + 1].content, mtime)

\* C10: for an asset of compressed length N the array is declared with size
\* N + 1, its literal denotes exactly N bytes, the compiled array ends in the
\* one terminator, and the branch passes sizeof - 1 = N: the N compressed
\* bytes, nothing more and nothing less.
C10_SentinelLength ==
    /\ \A k \in 1..Len(dest.data) :
          LET d == dest.data[k]
              N == Len(CompressedOf(k - 1))
          IN  /\ d.size = N + 1
              /\ CStringValue(d.text).ok
              /\ Len(CStringValue(d.text).bytes) = N
    /\ pc = "built"
          => \A j \in 1..Len(image.chain) :
                LET b == image.chain[j]
                    arr == image.arrays[b.data + 1]
                    size == Len(image.arrays[b.size + 1]) - 1
                    N == Len(CompressedOf(b.data))
                IN  /\ Len(arr) = N + 1
                    /\ arr[N + 1] = 0
                    /\ size = N
                    /\ SubSeq(arr, 1, size) = CompressedOf(b.data)

\* C10, its case: an artifact with an asset of non-empty content was
\* compiled.
C10_Witness ==
    /\ pc = "built"
    /\ \E j \in 1..Len(image.chain) : tree[image.chain[j].data + 1].content # <<>>

=============================================================================
